---- MODULE Spec2Model ----
(***************************************************************************)
(* GraphQLFederationFactory                                                *)
(* (packages/graphql/lib/federation/graphql-federation.factory.ts).        *)
(*                                                                         *)
(* Three specifications over one set of variables:                         *)
(*   SpecOverride   the override/extend pass over a federated and an       *)
(*                  auto-generated schema, and calls of the wrapped        *)
(*                  resolveType;                                           *)
(*   SpecResolvers  the assembly of the resolver map (getResolvers);       *)
(*   Spec           the two public entry points, mergeWithSchema and       *)
(*                  buildFederatedSchema, as processes over opaque         *)
(*                  schemas, with the federation version resolution.       *)
(* A specification leaves the variables of the other two at their idle     *)
(* values.                                                                 *)
(***************************************************************************)
EXTENDS Integers, Sequences, FiniteSets, TLC

VARIABLES
  executableSchema,     \* the federated schema, mutated by the override pass
  autoGeneratedSchema,  \* the code-first schema
  originalSchema,       \* the federated schema as buildFederatedSchema() made it
  firstPassSchema,      \* the federated schema after the first override pass
  passes,               \* override passes run so far
  call,                 \* the last call of a wrapped resolveType
  exploredResolvers,    \* resolversExplorerService.explore()
  scalarResolvers,      \* scalarsExplorerService.explore()
  optionResolvers,      \* options.resolvers
  resolverMap,          \* what getResolvers returned
  pc,                   \* where the running entry point is
  entry,                \* the entry point called
  options,              \* its options
  schemaHost,           \* gqlSchemaHost.schema
  versionAndConfig,     \* what getFederationVersionAndConfig returned
  generatorArgs,        \* what gqlSchemaBuilder.generateSchema was given
  generatorCalls,       \* calls of gqlSchemaBuilder.generateSchema by this call
  generatorError,       \* what gqlSchemaBuilder.generateSchema threw
  logged,               \* what this call wrote with console.error
  thrownError,          \* what the entry point threw
  returned              \* what the entry point returned

overrideVars ==
  <<executableSchema, autoGeneratedSchema, originalSchema, firstPassSchema,
    passes, call>>

resolverVars == <<exploredResolvers, scalarResolvers, optionResolvers, resolverMap>>

mergeVars ==
  <<pc, entry, options, schemaHost, versionAndConfig,
    generatorArgs, generatorCalls, generatorError, logged, thrownError, returned>>

vars == <<overrideVars, resolverVars, mergeVars>>

(***************************************************************************)
(* Bounds.                                                                 *)
(***************************************************************************)
\* Named types that exist in the federated or the auto-generated schema.
MaxTypes == 2
\* Override passes run on one schema pair.
MaxPasses == 2
\* Resolver maps found by scalarsExplorerService.explore().
MaxScalars == 1
\* Resolver maps in an options.resolvers array.
MaxOptionResolvers == 2

(***************************************************************************)
(* Schemas.  A schema maps a type name to a named type, or to Absent       *)
(* (getType() gives undefined).  A name has one kind in both schemas: the  *)
(* federated schema is built from the SDL printed from the auto-generated  *)
(* one (lines 125-144).  The two schemas differ in which types they hold,  *)
(* in fields, enum values, resolvers, extensions and AST nodes.            *)
(***************************************************************************)
Undefined == <<>>

Absent == [kind |-> "absent"]

TypeNames ==
  {"Pet", "_Entity", "Node", "Status", "UserInput", "User", "DateTime", "JSON"}

KindOf(name) ==
  CASE name \in {"Pet", "_Entity"} -> "union"
    [] name = "Node" -> "interface"
    [] name = "Status" -> "enum"
    [] name = "UserInput" -> "input"
    [] name = "User" -> "object"
    [] OTHER -> "scalar"

isUnionType(type) == type.kind = "union"
isInterfaceType(type) == type.kind = "interface"
isEnumType(type) == type.kind = "enum"
isInputObjectType(type) == type.kind = "input"
isObjectType(type) == type.kind = "object"
isScalarType(type) == type.kind = "scalar"

GetType(schema, name) ==
  IF name \in DOMAIN schema THEN schema[name] ELSE Absent

\* A resolveType: none, a function of the schema's own, or the wrapper
\* installed by overrideFederatedResolveType around the resolveType of the
\* type `name` of schema `origin` (layers: wrappers stacked on it).
NoResolveType == [tag |-> "undefined", origin |-> "", name |-> "", layers |-> 0]
OwnResolveType(origin, name) ==
  [tag |-> "function", origin |-> origin, name |-> name, layers |-> 0]

\* Opaque values (functions, extension objects, AST nodes) named by where
\* they were declared.
Token(origin, what, type, field) == <<origin, what, type, field>>

FieldSets == {{"id"}, {"id", "name"}}

\* Which fields of an object type have a resolver: `id` has one or not;
\* `name` (a field the other schema may lack) has one when `alsoName`.
ResolveChoices(fieldSet, alsoName) ==
  {[f \in fieldSet |-> IF f = "id" THEN b ELSE alsoName /\ b] : b \in BOOLEAN}

ObjectField(origin, type, f, hasResolve) ==
  [resolve |-> IF hasResolve THEN Token(origin, "resolve", type, f) ELSE Undefined,
   extensions |-> Token(origin, "extensions", type, f),
   astNode |-> Token(origin, "astNode", type, f)]

InputField(origin, type, f) ==
  [extensions |-> Token(origin, "extensions", type, f),
   astNode |-> Token(origin, "astNode", type, f)]

\* Type-level extensions and AST nodes are objects: key -> value.
FedExtensions == [k \in {"complexity", "role"} |-> <<"fed", k>>]
AutoExtensions == [k \in {"role", "cache"} |-> <<"auto", k>>]
FedAstNode == [k \in {"kind", "directives"} |-> <<"fed", k>>]
AutoAstNode == [k \in {"kind", "description"} |-> <<"auto", k>>]
\* An auto-generated object type: <<extensions, astNode>>, with metadata
\* and a definition node or without either.
AutoTypeLevelChoices == {<<Undefined, Undefined>>, <<AutoExtensions, AutoAstNode>>}

Literals == {"2020-01-01T00:00:00Z", "not-a-date"}

\* The types buildFederatedSchema() can give the name.
FedTypes(name) ==
  CASE KindOf(name) \in {"union", "interface"} ->
         {[kind |-> KindOf(name), origin |-> "fed", name |-> name, resolveType |-> rt] :
            rt \in {NoResolveType, OwnResolveType("fed", name)}}
    [] KindOf(name) = "enum" ->
         {[kind |-> "enum", origin |-> "fed", name |-> name, values |-> vs] :
            vs \in {{}, {"ACTIVE"}}}
    [] KindOf(name) = "input" ->
         {[kind |-> "input", origin |-> "fed", name |-> name,
           fields |-> [f \in fs |-> InputField("fed", name, f)],
           extensions |-> FedExtensions] : fs \in FieldSets}
    [] KindOf(name) = "object" ->
         UNION {{[kind |-> "object", origin |-> "fed", name |-> name,
                  fields |-> [f \in fs |-> ObjectField("fed", name, f, rc[f])],
                  extensions |-> FedExtensions,
                  astNode |-> FedAstNode] : rc \in ResolveChoices(fs, FALSE)} : fs \in FieldSets}
    [] OTHER ->
         {[kind |-> "scalar", origin |-> "fed", name |-> name,
           parseLiteral |-> Literals, parseValue |-> Literals]}

\* The types the code-first generator can give the name.
AutoTypes(name) ==
  CASE KindOf(name) \in {"union", "interface"} ->
         {[kind |-> KindOf(name), origin |-> "auto", name |-> name, resolveType |-> rt] :
            rt \in {NoResolveType, OwnResolveType("auto", name)}}
    [] KindOf(name) = "enum" ->
         {[kind |-> "enum", origin |-> "auto", name |-> name, values |-> vs] :
            vs \in {{"ACTIVE", "INACTIVE"}}}
    [] KindOf(name) = "input" ->
         {[kind |-> "input", origin |-> "auto", name |-> name,
           fields |-> [f \in fs |-> InputField("auto", name, f)],
           extensions |-> AutoExtensions] : fs \in FieldSets}
    [] KindOf(name) = "object" ->
         UNION {{[kind |-> "object", origin |-> "auto", name |-> name,
                  fields |-> [f \in fs |-> ObjectField("auto", name, f, rc[f])],
                  extensions |-> x[1],
                  astNode |-> x[2]] :
                    rc \in ResolveChoices(fs, TRUE),
                    x \in AutoTypeLevelChoices} : fs \in FieldSets}
    [] OTHER ->
         {[kind |-> "scalar", origin |-> "auto", name |-> name,
           parseLiteral |-> ls, parseValue |-> ls] :
            ls \in {{"2020-01-01T00:00:00Z"}}}

EmptySchema == [n \in TypeNames |-> Absent]

TypeCombos(name) ==
  ((FedTypes(name) \cup {Absent}) \X (AutoTypes(name) \cup {Absent}))
    \ {<<Absent, Absent>>}

\* The schema pairs in which at most k names of `names` exist.
RECURSIVE SchemaPairs(_, _)
SchemaPairs(names, k) ==
  IF names = {} \/ k = 0
  THEN {[fed |-> EmptySchema, auto |-> EmptySchema]}
  ELSE LET n == CHOOSE x \in names : TRUE
           rest == names \ {n}
       IN SchemaPairs(rest, k)
            \cup {[fed |-> [p.fed EXCEPT ![n] = c[1]],
                   auto |-> [p.auto EXCEPT ![n] = c[2]]] :
                    p \in SchemaPairs(rest, k - 1), c \in TypeCombos(n)}

(***************************************************************************)
(* The wrapped resolveType (lines 281-315).  What the auto-generated       *)
(* resolveType returns: nothing, a type name, or an object type of the     *)
(* auto-generated schema.                                                  *)
(***************************************************************************)
NullResult == [tag |-> "null", name |-> "", type |-> Absent]
StringResult(name) == [tag |-> "string", name |-> name, type |-> Absent]
TypeResult(type) == [tag |-> "type", name |-> type.name, type |-> type]

AutoResolveTypeResults(autoSchema) ==
  {NullResult, StringResult(""), StringResult("User")}
    \cup {TypeResult(autoSchema[n]) :
            n \in {m \in TypeNames : isObjectType(autoSchema[m])}}

isString(result) == result.tag = "string"
\* JavaScript's !x for these values: null, undefined and "" are falsy.
Falsy(result) == result.tag = "null" \/ (result.tag = "string" /\ result.name = "")

\* Variant: the wrapper without the lookup in info.schema (lines 303-311).
ResolveTypeWrapperAutoInstance(resultFromAutogenSchema, infoSchema) ==
  resultFromAutogenSchema

ResolveTypeWrapper(resultFromAutogenSchema, infoSchema) ==
  IF Falsy(resultFromAutogenSchema) \/ isString(resultFromAutogenSchema)
  THEN resultFromAutogenSchema
  ELSE LET resultFromFederatedSchema ==
             GetType(infoSchema, resultFromAutogenSchema.type.name)
       IN IF resultFromFederatedSchema # Absent
               /\ isObjectType(resultFromFederatedSchema)
          THEN TypeResult(resultFromFederatedSchema)
          ELSE resultFromAutogenSchema

(***************************************************************************)
(* overrideFederatedResolveType (lines 261-317).                           *)
(***************************************************************************)
WrapperAround(origin, name, layers) ==
  [tag |-> "wrapper", origin |-> origin, name |-> name, layers |-> layers]

\* Variant: without the bail-out of lines 270-279.
OverrideFederatedResolveTypeNoBail(typeInFederatedSchema, autoSchema) ==
  [typeInFederatedSchema EXCEPT
     !.resolveType = WrapperAround("auto", typeInFederatedSchema.name, 1)]

\* Variant: the wrapper calls typeInFederatedSchema.resolveType, the
\* function it replaces, instead of autoGeneratedType.resolveType.
OverrideFederatedResolveTypeWrapsOwn(typeInFederatedSchema, autoSchema) ==
  LET autoGeneratedType == GetType(autoSchema, typeInFederatedSchema.name)
  IN IF \/ autoGeneratedType = Absent
        \/ ~(isUnionType(autoGeneratedType) \/ isInterfaceType(autoGeneratedType))
        \/ autoGeneratedType.resolveType = NoResolveType
     THEN typeInFederatedSchema
     ELSE [typeInFederatedSchema EXCEPT
             !.resolveType =
               WrapperAround("fed", typeInFederatedSchema.name,
                             typeInFederatedSchema.resolveType.layers + 1)]

OverrideFederatedResolveType(typeInFederatedSchema, autoSchema) ==
  LET autoGeneratedType == GetType(autoSchema, typeInFederatedSchema.name)
  IN IF \/ autoGeneratedType = Absent
        \/ ~(isUnionType(autoGeneratedType) \/ isInterfaceType(autoGeneratedType))
        \/ autoGeneratedType.resolveType = NoResolveType
     THEN typeInFederatedSchema
     ELSE [typeInFederatedSchema EXCEPT
             !.resolveType = WrapperAround("auto", autoGeneratedType.name, 1)]

(***************************************************************************)
(* overrideOrExtendResolvers (lines 175-255), one operator per branch of   *)
(* the callback given to transformSchema.                                  *)
(***************************************************************************)
\* Variant: the enum branch returns the federated type.
OverrideEnumTypeKeepsFederated(type, autoSchema) == type

\* Line 186: the auto-generated type, or undefined.
OverrideEnumType(type, autoSchema) == GetType(autoSchema, type.name)

\* Lines 196-203.
OverrideInputField(value, field) ==
  [value EXCEPT !.extensions = field.extensions, !.astNode = field.astNode]

\* Lines 187-205.
OverrideInputObjectType(type, autoSchema) ==
  LET autoGeneratedInputType == GetType(autoSchema, type.name)
  IN IF autoGeneratedInputType = Absent
     THEN type
     ELSE [type EXCEPT
             !.fields =
               [key \in DOMAIN type.fields |->
                  IF key \notin DOMAIN autoGeneratedInputType.fields
                  THEN type.fields[key]
                  ELSE OverrideInputField(type.fields[key],
                                          autoGeneratedInputType.fields[key])],
             !.extensions = autoGeneratedInputType.extensions]

\* Variant: without the test of line 225.
OverrideObjectFieldAlwaysCopiesResolve(value, field) ==
  [value EXCEPT !.extensions = field.extensions,
                !.astNode = field.astNode,
                !.resolve = field.resolve]

\* Lines 217-228.
OverrideObjectField(value, field) ==
  [value EXCEPT !.extensions = field.extensions,
                !.astNode = field.astNode,
                !.resolve = IF value.resolve = Undefined
                            THEN field.resolve
                            ELSE value.resolve]

\* { ...a, ...b }
Spread(a, b) ==
  [k \in DOMAIN a \cup DOMAIN b |-> IF k \in DOMAIN b THEN b[k] ELSE a[k]]

\* Lines 206-240.
OverrideObjectType(type, autoSchema) ==
  LET autoGeneratedObjectType == GetType(autoSchema, type.name)
  IN IF autoGeneratedObjectType = Absent
     THEN type
     ELSE [type EXCEPT
             !.fields =
               [key \in DOMAIN type.fields |->
                  IF key \notin DOMAIN autoGeneratedObjectType.fields
                  THEN type.fields[key]
                  ELSE OverrideObjectField(type.fields[key],
                                           autoGeneratedObjectType.fields[key])],
             !.astNode =
               IF autoGeneratedObjectType.astNode # Undefined
               THEN Spread(type.astNode, autoGeneratedObjectType.astNode)
               ELSE type.astNode,
             !.extensions = Spread(type.extensions, autoGeneratedObjectType.extensions)]

\* Variant: without line 249.
OverrideDateTimeScalarForgetsParseLiteral(type, autoSchema) ==
  LET autoGeneratedScalar == GetType(autoSchema, type.name)
  IN IF autoGeneratedScalar = Absent
     THEN type
     ELSE [type EXCEPT !.parseValue = autoGeneratedScalar.parseValue]

\* Lines 241-252.
OverrideDateTimeScalar(type, autoSchema) ==
  LET autoGeneratedScalar == GetType(autoSchema, type.name)
  IN IF autoGeneratedScalar = Absent
     THEN type
     ELSE [type EXCEPT !.parseLiteral = autoGeneratedScalar.parseLiteral,
                       !.parseValue = autoGeneratedScalar.parseValue]

\* The callback of lines 180-254.
OverrideType(type, autoSchema) ==
  IF isUnionType(type) /\ type.name # "_Entity"
  THEN OverrideFederatedResolveType(type, autoSchema)
  ELSE IF isInterfaceType(type)
  THEN OverrideFederatedResolveType(type, autoSchema)
  ELSE IF isEnumType(type)
  THEN OverrideEnumType(type, autoSchema)
  ELSE IF isInputObjectType(type)
  THEN OverrideInputObjectType(type, autoSchema)
  ELSE IF isObjectType(type)
  THEN OverrideObjectType(type, autoSchema)
  ELSE IF isScalarType(type) /\ type.name = "DateTime"
  THEN OverrideDateTimeScalar(type, autoSchema)
  ELSE type

\* transformSchema of ../utils/transform-schema.util: every named type of
\* the schema is visited once and replaced by what the callback returns;
\* a callback result of undefined keeps the type.
TransformSchema(schema, autoSchema) ==
  [n \in DOMAIN schema |->
     IF schema[n] = Absent
     THEN Absent
     ELSE LET result == OverrideType(schema[n], autoSchema)
          IN IF result = Absent THEN schema[n] ELSE result]

OverrideOrExtendResolvers(schema, autoSchema) == TransformSchema(schema, autoSchema)

(***************************************************************************)
(* getResolvers (lines 160-173).  A resolver map is an object: key ->      *)
(* value.  An element of the merged list is a map or undefined.            *)
(***************************************************************************)
ResolverKeys == {"Query", "Date"}
ResolverValues == {"r1", "r2"}

ResolverMaps ==
  UNION {[ks -> ResolverValues] : ks \in SUBSET ResolverKeys}

\* What scalarsExplorerService.explore() holds: { [name]: scalar }.
ScalarResolverMaps ==
  {m \in ResolverMaps : Cardinality(DOMAIN m) = 1}

Defined(map) == [defined |-> TRUE, map |-> map]
UndefinedResolvers == [defined |-> FALSE, map |-> Undefined]

\* options.resolvers: undefined, one map, or an array of maps.
NotArray(element) == [isArray |-> FALSE, element |-> element, items |-> <<>>]
ArrayOf(items) == [isArray |-> TRUE, element |-> UndefinedResolvers, items |-> items]

RECURSIVE SeqsUpTo(_, _)
SeqsUpTo(S, n) ==
  IF n = 0 THEN {<<>>}
  ELSE SeqsUpTo(S, n - 1)
         \cup {Append(q, x) : q \in {r \in SeqsUpTo(S, n - 1) : Len(r) = n - 1}, x \in S}

OptionResolverValues ==
  {NotArray(UndefinedResolvers)}
    \cup {NotArray(Defined(m)) : m \in ResolverMaps}
    \cup {ArrayOf(q) : q \in SeqsUpTo({Defined(m) : m \in ResolverMaps}, MaxOptionResolvers)}

\* extend of ../utils on objects: { ...prev, ...curr }, an undefined curr
\* adding nothing.
Extend(prev, curr) ==
  IF curr.defined THEN Spread(prev, curr.map) ELSE prev

\* Line 172: resolvers.reduce((prev, curr) => extend(prev, curr), {}).
RECURSIVE ExtendResolvers(_)
ExtendResolvers(resolvers) ==
  IF resolvers = <<>>
  THEN Undefined
  ELSE Extend(ExtendResolvers(SubSeq(resolvers, 1, Len(resolvers) - 1)),
              resolvers[Len(resolvers)])

\* Variant: the caller's resolvers spread first in the list of lines 164-168.
GetResolversOptionsFirst(explored, scalars, optResolvers) ==
  LET list == IF optResolvers.isArray THEN optResolvers.items
              ELSE <<optResolvers.element>>
  IN ExtendResolvers(list \o <<explored>> \o scalars)

\* Lines 160-169.
GetResolvers(explored, scalars, optResolvers) ==
  LET list == IF optResolvers.isArray THEN optResolvers.items
              ELSE <<optResolvers.element>>
  IN ExtendResolvers(<<explored>> \o scalars \o list)

NoResolverMap == [computed |-> FALSE, map |-> Undefined]

ResolversIdle ==
  /\ exploredResolvers = Defined(Undefined)
  /\ scalarResolvers = <<>>
  /\ optionResolvers = NotArray(UndefinedResolvers)
  /\ resolverMap = NoResolverMap

(***************************************************************************)
(* getFederationVersionAndConfig (lines 358-371).                          *)
(*                                                                         *)
(* An autoSchemaFile value: undefined, null, a boolean, a string, or an    *)
(* object with an optional path and an optional federation field; the      *)
(* federation field: undefined, null, a number, or a config object with    *)
(* an optional version (0: none) and an optional someOption.               *)
(***************************************************************************)
DEFAULT_FEDERATION_VERSION == 1

FederationValue(type, number, version, someOption) ==
  [type |-> type, number |-> number, version |-> version, someOption |-> someOption]

UndefinedFederation == FederationValue("undefined", 0, 0, "absent")

FederationValues ==
  {UndefinedFederation, FederationValue("null", 0, 0, "absent")}
    \cup {FederationValue("number", n, 0, "absent") : n \in {1, 2}}
    \cup {FederationValue("object", 0, v, o) : v \in {0, 1, 2}, o \in {"absent", "true"}}

AutoSchemaFile(type, truthy, path, federation) ==
  [type |-> type, truthy |-> truthy, path |-> path, federation |-> federation]

AutoSchemaFileValues ==
  {AutoSchemaFile("undefined", FALSE, "", UndefinedFederation),
   AutoSchemaFile("null", FALSE, "", UndefinedFederation),
   AutoSchemaFile("boolean", FALSE, "", UndefinedFederation),
   AutoSchemaFile("boolean", TRUE, "", UndefinedFederation),
   AutoSchemaFile("string", FALSE, "", UndefinedFederation),
   AutoSchemaFile("string", TRUE, "schema.gql", UndefinedFederation)}
    \cup {AutoSchemaFile("object", TRUE, p, f) :
            p \in {"", "schema.gql"}, f \in FederationValues}

\* JavaScript's typeof x === 'object': objects and null.
TypeofObject(value) == value.type \in {"object", "null"}

\* x ?? DEFAULT_FEDERATION_VERSION for a federation field that is no object.
FederationOrDefault(federation) ==
  IF federation.type = "number" THEN federation.number ELSE DEFAULT_FEDERATION_VERSION

\* federation?.version ?? DEFAULT_FEDERATION_VERSION.
VersionOrDefault(federation) ==
  IF federation.type = "object" /\ federation.version # 0
  THEN federation.version
  ELSE DEFAULT_FEDERATION_VERSION

VersionAndConfig(version, config) ==
  [resolved |-> TRUE, version |-> version, config |-> config]

NotResolved ==
  [resolved |-> FALSE, version |-> 0, config |-> UndefinedFederation]

\* Variant: line 365 returning the default for every non-object field.
GetFederationVersionAndConfigIgnoresNumber(autoSchemaFile) ==
  IF ~autoSchemaFile.truthy \/ autoSchemaFile.type # "object"
       \/ ~TypeofObject(autoSchemaFile.federation)
  THEN VersionAndConfig(DEFAULT_FEDERATION_VERSION, UndefinedFederation)
  ELSE VersionAndConfig(VersionOrDefault(autoSchemaFile.federation),
                        autoSchemaFile.federation)

GetFederationVersionAndConfig(autoSchemaFile) ==
  IF ~autoSchemaFile.truthy \/ autoSchemaFile.type # "object"
  THEN VersionAndConfig(DEFAULT_FEDERATION_VERSION, UndefinedFederation)
  ELSE IF ~TypeofObject(autoSchemaFile.federation)
  THEN VersionAndConfig(FederationOrDefault(autoSchemaFile.federation),
                        UndefinedFederation)
  ELSE VersionAndConfig(VersionOrDefault(autoSchemaFile.federation),
                        autoSchemaFile.federation)

(***************************************************************************)
(* mergeWithSchema (lines 53-78), generateSchema (lines 96-158) and        *)
(* buildFederatedSchema (lines 319-356) over opaque schemas.               *)
(***************************************************************************)
SchemaValue(base, transformed) == [base |-> base, transformed |-> transformed]
UndefinedSchema == SchemaValue("undefined", FALSE)

\* options.transformSchema: none, one that returns its argument, one that
\* returns another schema, one that throws.
Hooks == {"none", "identity", "rewrite", "throws"}

\* Lines 59-60.
TransformSchemaHook(hook, schema) ==
  IF hook = "rewrite" THEN SchemaValue(schema.base, TRUE) ELSE schema

OptionValues ==
  [autoSchemaFile : AutoSchemaFileValues,
   typeDefs : {"", "type Query"},
   schema : {UndefinedSchema, SchemaValue("options.schema", FALSE)},
   transformSchema : Hooks,
   transformAutoSchemaFile : BOOLEAN,
   directives : {<<>>, <<"@custom">>}]

NoOptions ==
  [autoSchemaFile |-> AutoSchemaFile("undefined", FALSE, "", UndefinedFederation),
   typeDefs |-> "", schema |-> UndefinedSchema, transformSchema |-> "none",
   transformAutoSchemaFile |-> FALSE, directives |-> <<>>]

\* What the generator or a hook can throw: a falsy value, an error, an
\* error with a details payload.
ErrorValue(truthy, message, details) ==
  [truthy |-> truthy, message |-> message, details |-> details]
NoError == [raised |-> FALSE, error |-> ErrorValue(FALSE, "", "")]
Raised(error) == [raised |-> TRUE, error |-> error]

GeneratorErrors ==
  {ErrorValue(FALSE, "", ""),
   ErrorValue(TRUE, "Schema generation failed", ""),
   ErrorValue(TRUE, "Schema generation failed", "details")}

HookError == ErrorValue(TRUE, "transformSchema failed", "")

\* Lines 326-349: what gqlSchemaBuilder.generateSchema is given.
NoGeneratorArgs ==
  [directives |-> <<>>, skipCheck |-> FALSE, transformSchema |-> "none"]

GeneratorArguments(autoSchemaFile, opts) ==
  LET federationVersion == GetFederationVersionAndConfig(autoSchemaFile).version
  IN [directives |->
        <<"specifiedDirectives">>
          \o (IF federationVersion < 2 THEN <<"federationDirectives">> ELSE <<>>)
          \o opts.directives,
      skipCheck |-> TRUE,
      transformSchema |->
        IF opts.transformAutoSchemaFile THEN opts.transformSchema ELSE "none"]

\* Variant: `throw err` inside the test of line 351.
CatchSwallowsErrorWithoutDetails(err, log) ==
  IF err.truthy /\ err.details # ""
  THEN [log |-> Append(log, err.details), rethrown |-> TRUE, error |-> err]
  ELSE [log |-> log, rethrown |-> FALSE, error |-> err]

\* Lines 350-355: the catch block of buildFederatedSchema.
Catch(err, log) ==
  [log |-> IF err.truthy /\ err.details # "" THEN Append(log, err.details) ELSE log,
   rethrown |-> TRUE,
   error |-> err]

\* Lines 120-157, past the generator: the federated schema built from the
\* printed SDL, overridden, merged with options.schema when there is one.
GeneratedSchema(opts) ==
  IF opts.schema # UndefinedSchema
  THEN SchemaValue("mergeSchemas", FALSE)
  ELSE SchemaValue("executableSchema", FALSE)

NoReturn == [returned |-> FALSE, schema |-> UndefinedSchema, typeDefs |-> ""]

MergeIdle ==
  /\ pc = "idle"
  /\ entry = "none"
  /\ options = NoOptions
  /\ schemaHost = UndefinedSchema
  /\ versionAndConfig = NotResolved
  /\ generatorArgs = NoGeneratorArgs
  /\ generatorCalls = 0
  /\ generatorError = NoError
  /\ logged = <<>>
  /\ thrownError = NoError
  /\ returned = NoReturn

\* The factory builds the schema once, at startup.
CanCall == pc = "idle"

Enter(name, opts) ==
  /\ entry' = name
  /\ options' = opts
  /\ UNCHANGED <<generatorError, logged, thrownError, returned>>

\* buildFederatedSchema up to its await of the generator (lines 324-349).
CallGenerator(autoSchemaFile, opts) ==
  /\ versionAndConfig' = GetFederationVersionAndConfig(autoSchemaFile)
  /\ generatorArgs' = GeneratorArguments(autoSchemaFile, opts)
  /\ generatorCalls' = 1
  /\ pc' = "generating"

\* mergeWithSchema, lines 59-71 or up to the await of line 64.
MergeWithSchema ==
  /\ CanCall
  /\ \E opts \in OptionValues :
       /\ Enter("mergeWithSchema", opts)
       /\ IF opts.autoSchemaFile.truthy
          THEN /\ CallGenerator(opts.autoSchemaFile, opts)
               /\ UNCHANGED schemaHost
          ELSE /\ schemaHost' = IF opts.typeDefs = ""
                                THEN opts.schema
                                ELSE SchemaValue("buildSubgraphSchema", FALSE)
               /\ pc' = "transforming"
               /\ versionAndConfig' = NotResolved
               /\ generatorArgs' = NoGeneratorArgs
               /\ generatorCalls' = 0
  /\ UNCHANGED <<overrideVars, resolverVars>>

\* buildFederatedSchema called by itself: it is a public method.  Of its
\* options it reads buildSchemaOptions.directives, transformSchema and
\* transformAutoSchemaFile.
BuildFederatedSchema ==
  /\ CanCall
  /\ \E opts \in OptionValues :
       /\ opts.typeDefs = "" /\ opts.schema = UndefinedSchema
       /\ Enter("buildFederatedSchema", opts)
       /\ CallGenerator(opts.autoSchemaFile, opts)
       /\ UNCHANGED schemaHost
  /\ UNCHANGED <<overrideVars, resolverVars>>

\* The generator returns a schema: buildFederatedSchema returns it (line
\* 338); under mergeWithSchema, generateSchema goes on to line 157 and
\* mergeWithSchema to line 71.
GeneratorReturns ==
  /\ pc = "generating"
  /\ IF entry = "buildFederatedSchema"
     THEN /\ returned' = [returned |-> TRUE,
                          schema |-> SchemaValue("autoGeneratedSchema", FALSE),
                          typeDefs |-> ""]
          /\ pc' = "done"
          /\ UNCHANGED schemaHost
     ELSE /\ schemaHost' = GeneratedSchema(options)
          /\ pc' = "transforming"
          /\ UNCHANGED returned
  /\ UNCHANGED <<entry, options, versionAndConfig, generatorArgs,
                 generatorCalls, generatorError, logged, thrownError>>
  /\ UNCHANGED <<overrideVars, resolverVars>>

\* The generator throws: the catch block of lines 350-355, and the error
\* leaves generateSchema and mergeWithSchema at their awaits.
GeneratorThrows ==
  /\ pc = "generating"
  /\ \E err \in GeneratorErrors :
       LET c == Catch(err, logged)
       IN /\ generatorError' = Raised(err)
          /\ logged' = c.log
          /\ IF c.rethrown
             THEN /\ thrownError' = Raised(c.error)
                  /\ pc' = "failed"
                  /\ UNCHANGED <<schemaHost, returned>>
             ELSE IF entry = "buildFederatedSchema"
             THEN /\ returned' = [returned |-> TRUE, schema |-> UndefinedSchema,
                                  typeDefs |-> ""]
                  /\ pc' = "done"
                  /\ UNCHANGED <<schemaHost, thrownError>>
             ELSE /\ schemaHost' = GeneratedSchema(options)
                  /\ pc' = "transforming"
                  /\ UNCHANGED <<returned, thrownError>>
  /\ UNCHANGED <<entry, options, versionAndConfig, generatorArgs, generatorCalls>>
  /\ UNCHANGED <<overrideVars, resolverVars>>

\* Lines 73-77: the await of transformSchema(schema) ends.
TransformSettles ==
  /\ pc = "transforming"
  /\ IF options.transformSchema = "throws"
     THEN /\ thrownError' = Raised(HookError)
          /\ pc' = "failed"
          /\ UNCHANGED returned
     ELSE /\ returned' = [returned |-> TRUE,
                          schema |-> TransformSchemaHook(options.transformSchema,
                                                         schemaHost),
                          typeDefs |-> ""]
          /\ pc' = "done"
          /\ UNCHANGED thrownError
  /\ UNCHANGED <<entry, options, schemaHost, versionAndConfig,
                 generatorArgs, generatorCalls, generatorError, logged>>
  /\ UNCHANGED <<overrideVars, resolverVars>>

(***************************************************************************)
(* SpecOverride.                                                           *)
(***************************************************************************)
NoCall == [made |-> FALSE, type |-> "", autoResult |-> NullResult, result |-> NullResult]

OverrideIdle ==
  /\ executableSchema = EmptySchema
  /\ autoGeneratedSchema = EmptySchema
  /\ originalSchema = EmptySchema
  /\ firstPassSchema = EmptySchema
  /\ passes = 0
  /\ call = NoCall

InitOverride ==
  /\ ResolversIdle
  /\ MergeIdle
  /\ \E p \in SchemaPairs(TypeNames, MaxTypes) :
       /\ executableSchema = p.fed
       /\ autoGeneratedSchema = p.auto
       /\ originalSchema = p.fed
  /\ firstPassSchema = EmptySchema
  /\ passes = 0
  /\ call = NoCall

\* Lines 146-150; a further pass is the same call again on its own result.
OverridePass ==
  /\ passes < MaxPasses
  /\ executableSchema' = OverrideOrExtendResolvers(executableSchema, autoGeneratedSchema)
  /\ firstPassSchema' = IF passes = 0 THEN executableSchema' ELSE firstPassSchema
  /\ passes' = passes + 1
  /\ UNCHANGED <<autoGeneratedSchema, originalSchema, call>>
  /\ UNCHANGED <<resolverVars, mergeVars>>

\* The executor calls the resolveType of a union or interface of the final
\* schema (info.schema) for a value; the auto-generated resolveType under
\* the wrapper returns r.
ResolveTypeCall ==
  /\ passes >= 1
  /\ \E n \in TypeNames :
       /\ executableSchema[n] # Absent
       /\ isUnionType(executableSchema[n]) \/ isInterfaceType(executableSchema[n])
       /\ executableSchema[n].resolveType.tag = "wrapper"
       /\ \E r \in AutoResolveTypeResults(autoGeneratedSchema) :
            call' = [made |-> TRUE, type |-> n, autoResult |-> r,
                     result |-> ResolveTypeWrapper(r, executableSchema)]
  /\ UNCHANGED <<executableSchema, autoGeneratedSchema, originalSchema,
                 firstPassSchema, passes>>
  /\ UNCHANGED <<resolverVars, mergeVars>>

NextOverride == OverridePass \/ ResolveTypeCall

SpecOverride == InitOverride /\ [][NextOverride]_vars

(***************************************************************************)
(* SpecResolvers.                                                          *)
(***************************************************************************)
InitResolvers ==
  /\ OverrideIdle
  /\ MergeIdle
  /\ exploredResolvers \in {Defined(m) : m \in ResolverMaps}
  /\ scalarResolvers \in SeqsUpTo({Defined(m) : m \in ScalarResolverMaps}, MaxScalars)
  /\ optionResolvers \in OptionResolverValues
  /\ resolverMap = NoResolverMap

GetResolversCall ==
  /\ ~resolverMap.computed
  /\ resolverMap' =
       [computed |-> TRUE,
        map |-> GetResolvers(exploredResolvers, scalarResolvers, optionResolvers)]
  /\ UNCHANGED <<exploredResolvers, scalarResolvers, optionResolvers>>
  /\ UNCHANGED <<overrideVars, mergeVars>>

NextResolvers == GetResolversCall

SpecResolvers == InitResolvers /\ [][NextResolvers]_vars

(***************************************************************************)
(* Spec: the entry points.                                                 *)
(***************************************************************************)
Init ==
  /\ OverrideIdle
  /\ ResolversIdle
  /\ MergeIdle

Next ==
  \/ MergeWithSchema
  \/ BuildFederatedSchema
  \/ GeneratorReturns
  \/ GeneratorThrows
  \/ TransformSettles

Spec == Init /\ [][Next]_vars

(***************************************************************************)
(* Claims about the override pass.                                         *)
(***************************************************************************)
Present(schema) == {n \in DOMAIN schema : schema[n] # Absent}

C2_FederatedFieldResolverKept ==
  passes >= 1 =>
    \A n \in Present(originalSchema) :
      isObjectType(originalSchema[n]) =>
        \A f \in DOMAIN originalSchema[n].fields :
          LET before == originalSchema[n].fields[f].resolve
              after == executableSchema[n].fields[f].resolve
              autoType == autoGeneratedSchema[n]
              matched == isObjectType(autoType) /\ f \in DOMAIN autoType.fields
          IN /\ before # Undefined => after = before
             /\ (before = Undefined /\ matched) => after = autoType.fields[f].resolve
             /\ (before = Undefined /\ ~matched) => after = Undefined

C2_Witness ==
  /\ passes >= 1
  /\ isObjectType(originalSchema["User"])
  /\ isObjectType(autoGeneratedSchema["User"])
  /\ originalSchema["User"].fields["id"].resolve # Undefined
  /\ autoGeneratedSchema["User"].fields["id"].resolve # Undefined
  /\ executableSchema["User"].fields["id"].resolve
       = originalSchema["User"].fields["id"].resolve
  /\ "name" \in DOMAIN originalSchema["User"].fields
  /\ "name" \in DOMAIN autoGeneratedSchema["User"].fields
  /\ executableSchema["User"].fields["name"].resolve
       = autoGeneratedSchema["User"].fields["name"].resolve
  /\ executableSchema["User"].fields["name"].resolve # Undefined

HasFields(type) == isObjectType(type) \/ isInputObjectType(type)

\* C3: a federated type of any kind with no same-named auto-generated type
\* comes out of the pass unchanged, and so does a federated field with no
\* same-named auto-generated field.
C3_UnmatchedLeftUnchanged ==
  passes >= 1 =>
    \A n \in Present(originalSchema) :
      /\ autoGeneratedSchema[n] = Absent => executableSchema[n] = originalSchema[n]
      /\ (HasFields(originalSchema[n]) /\ autoGeneratedSchema[n] # Absent) =>
           \A f \in DOMAIN originalSchema[n].fields \ DOMAIN autoGeneratedSchema[n].fields :
             /\ f \in DOMAIN executableSchema[n].fields
             /\ executableSchema[n].fields[f] = originalSchema[n].fields[f]

C3_Witness ==
  /\ passes >= 1
  /\ \E n \in Present(originalSchema) :
       /\ isEnumType(originalSchema[n]) \/ isUnionType(originalSchema[n])
       /\ n # "_Entity"
       /\ autoGeneratedSchema[n] = Absent
       /\ executableSchema[n] = originalSchema[n]
  /\ \E n \in Present(originalSchema) :
       /\ HasFields(originalSchema[n])
       /\ autoGeneratedSchema[n] # Absent
       /\ "name" \in DOMAIN originalSchema[n].fields
       /\ "name" \notin DOMAIN autoGeneratedSchema[n].fields
       /\ executableSchema[n] # originalSchema[n]

\* C4: a second override pass with the same auto-generated schema leaves
\* the schema as the first pass made it: field resolvers, extensions, AST
\* nodes, enum types, scalar parsers, and the resolveType wrappers, which
\* stay one layer around the auto-generated resolveType.
C4_OverridePassIdempotent ==
  passes >= 2 =>
    /\ executableSchema = firstPassSchema
    /\ \A n \in Present(executableSchema) :
         (isUnionType(executableSchema[n]) \/ isInterfaceType(executableSchema[n])) =>
            executableSchema[n].resolveType.layers <= 1

C4_Witness ==
  /\ passes >= 2
  /\ executableSchema # originalSchema
  /\ \E n \in Present(executableSchema) :
       /\ isUnionType(executableSchema[n])
       /\ executableSchema[n].resolveType.tag = "wrapper"
  /\ \E n \in Present(executableSchema) :
       /\ isObjectType(executableSchema[n])
       /\ executableSchema[n] # originalSchema[n]

\* C5: after the pass, a federated enum with a same-named auto-generated
\* type is that auto-generated type itself, with its value set.
C5_EnumReplacedWholesale ==
  passes >= 1 =>
    \A n \in Present(originalSchema) :
      (isEnumType(originalSchema[n]) /\ autoGeneratedSchema[n] # Absent) =>
        /\ executableSchema[n] = autoGeneratedSchema[n]
        /\ executableSchema[n].origin = "auto"
        /\ executableSchema[n].values = autoGeneratedSchema[n].values

C5_Witness ==
  /\ passes >= 1
  /\ isEnumType(originalSchema["Status"])
  /\ originalSchema["Status"].values = {}
  /\ isEnumType(autoGeneratedSchema["Status"])
  /\ executableSchema["Status"].values = {"ACTIVE", "INACTIVE"}

\* C9: after the pass, a DateTime scalar with a same-named auto-generated
\* scalar accepts the literals and values the auto-generated scalar accepts;
\* every other scalar and the _Entity union are as they were.
C9_DateTimeParsersCopied ==
  passes >= 1 =>
    \A n \in Present(originalSchema) :
      /\ (n = "DateTime" /\ isScalarType(originalSchema[n])
            /\ isScalarType(autoGeneratedSchema[n])) =>
           /\ executableSchema[n].parseLiteral = autoGeneratedSchema[n].parseLiteral
           /\ executableSchema[n].parseValue = autoGeneratedSchema[n].parseValue
           /\ \A l \in Literals :
                /\ l \in executableSchema[n].parseLiteral
                     <=> l \in autoGeneratedSchema[n].parseLiteral
                /\ l \in executableSchema[n].parseValue
                     <=> l \in autoGeneratedSchema[n].parseValue
      /\ ((isScalarType(originalSchema[n]) /\ n # "DateTime") \/ n = "_Entity") =>
           executableSchema[n] = originalSchema[n]

C9_Witness ==
  /\ passes >= 1
  /\ isScalarType(originalSchema["DateTime"])
  /\ isScalarType(autoGeneratedSchema["DateTime"])
  /\ "not-a-date" \in originalSchema["DateTime"].parseLiteral
  /\ "not-a-date" \notin executableSchema["DateTime"].parseLiteral
  /\ "2020-01-01T00:00:00Z" \in executableSchema["DateTime"].parseLiteral
  /\ isScalarType(originalSchema["JSON"])
  /\ isScalarType(autoGeneratedSchema["JSON"])
  /\ executableSchema["JSON"] = originalSchema["JSON"]

(***************************************************************************)
(* Claims about getResolvers.                                              *)
(***************************************************************************)
CallerResolvers ==
  IF optionResolvers.isArray THEN optionResolvers.items
  ELSE <<optionResolvers.element>>

Holders(list, key) ==
  {i \in 1..Len(list) : list[i].defined /\ key \in DOMAIN list[i].map}

Last(indices) == CHOOSE i \in indices : \A j \in indices : j <= i

\* C6: for every key, the assembled map holds the value of the latest
\* source that has the key, the sources ordered: the auto-discovered
\* resolvers, the scalar resolvers in order, the caller's resolvers (one
\* map, or the elements of an array in order); a key no source has is not
\* in the map.
C6_LatestSourceWins ==
  resolverMap.computed =>
    \A key \in ResolverKeys :
      LET inCaller == Holders(CallerResolvers, key)
          inScalars == Holders(scalarResolvers, key)
          inExplored == key \in DOMAIN exploredResolvers.map
      IN IF inCaller # {}
         THEN /\ key \in DOMAIN resolverMap.map
              /\ resolverMap.map[key] = CallerResolvers[Last(inCaller)].map[key]
         ELSE IF inScalars # {}
         THEN /\ key \in DOMAIN resolverMap.map
              /\ resolverMap.map[key] = scalarResolvers[Last(inScalars)].map[key]
         ELSE IF inExplored
         THEN /\ key \in DOMAIN resolverMap.map
              /\ resolverMap.map[key] = exploredResolvers.map[key]
         ELSE key \notin DOMAIN resolverMap.map

C6_Witness ==
  /\ resolverMap.computed
  /\ optionResolvers.isArray
  /\ Len(optionResolvers.items) = 2
  /\ \E key \in ResolverKeys :
       /\ key \in DOMAIN exploredResolvers.map
       /\ Holders(scalarResolvers, key) # {}
       /\ Holders(optionResolvers.items, key) = {1, 2}
       /\ optionResolvers.items[1].map[key] # optionResolvers.items[2].map[key]
       /\ exploredResolvers.map[key] # optionResolvers.items[2].map[key]
       /\ scalarResolvers[1].map[key] # optionResolvers.items[2].map[key]
       /\ resolverMap.map[key] = optionResolvers.items[2].map[key]

(***************************************************************************)
(* Claims about the entry points.                                          *)
(***************************************************************************)
\* C7: getFederationVersionAndConfig returns for every autoSchemaFile value,
\* and returns: the default version 1 and no config for a value that is
\* absent, no object, or without a federation field; the federation field's
\* value and no config when that field is a number; the federation object's
\* version, or 1 when it has none, and the federation object when the field
\* is an object.  A null federation field gives version 1 and no config
\* object.
C7_VersionAndConfigResolved ==
  LET asf == options.autoSchemaFile
      f == asf.federation
      got == versionAndConfig
  IN /\ (pc # "idle" /\ (entry = "buildFederatedSchema" \/ asf.truthy)) => got.resolved
     /\ got.resolved =>
          /\ (asf.type # "object" \/ f.type = "undefined") =>
               /\ got.version = 1
               /\ got.config = UndefinedFederation
          /\ (asf.type = "object" /\ f.type = "number") =>
               /\ got.version = f.number
               /\ got.config = UndefinedFederation
          /\ (asf.type = "object" /\ f.type = "object") =>
               /\ got.version = (IF f.version = 0 THEN 1 ELSE f.version)
               /\ got.config = f
          /\ (asf.type = "object" /\ f.type = "null") =>
               /\ got.version = 1
               /\ got.config.type \in {"undefined", "null"}

C7_Witness ==
  /\ versionAndConfig.resolved
  /\ options.autoSchemaFile.type = "object"
  /\ options.autoSchemaFile.federation = FederationValue("object", 0, 2, "true")
  /\ versionAndConfig.version = 2
  /\ versionAndConfig.config = FederationValue("object", 0, 2, "true")

\* C8: when mergeWithSchema has completed, the schema the schema host
\* holds is the schema returned in the result's `schema` field, the
\* transformed one.
C8_HostHoldsReturnedSchema ==
  (pc = "done" /\ entry = "mergeWithSchema") => schemaHost = returned.schema

\* C10: an error thrown by the code-first generator leaves the entry point
\* as it was thrown, after its details, if it has any, were written to the
\* console; the generator was called once, the schema host holds no schema
\* and nothing is returned.
C10_GeneratorErrorRethrown ==
  generatorError.raised =>
    /\ pc = "failed"
    /\ thrownError = generatorError
    /\ generatorCalls = 1
    /\ schemaHost = UndefinedSchema
    /\ ~returned.returned
    /\ logged = IF generatorError.error.truthy /\ generatorError.error.details # ""
                THEN <<generatorError.error.details>>
                ELSE <<>>

C10_Witness ==
  /\ generatorError.raised
  /\ entry = "mergeWithSchema"
  /\ generatorError.error.details = ""
  /\ generatorError.error.truthy
  /\ pc = "failed"
  /\ thrownError = generatorError
  /\ logged = <<>>

====
